---- MODULE Spec2Model ----
(***************************************************************************)
(* Model of the command registry and help subsystem of ocp-sustaining-bot  *)
(* (src/sdk/tools/help_system.py) and of the Slack dispatcher              *)
(* (src/slack_main.py).                                                     *)
(*                                                                         *)
(* Python strings are TLA+ strings; Len, SubSeq and \o act on them          *)
(* character by character, so the string functions of the code (strip,     *)
(* split, join, lower, replace, substring test, the help-flag regular      *)
(* expression) are computed below the way Python computes them.            *)
(* An optional value (None or a value) is a sequence of length 0 or 1.     *)
(***************************************************************************)
EXTENDS Integers, Sequences, FiniteSets, TLC

VARIABLES
    COMMAND_REGISTRY,   \* dict key -> function, as the insertion-ordered sequence of [k, f]
    attrs,              \* the _command_* attributes of each handler function object
    CACHED_HELP_TEXT,   \* _CACHED_HELP_TEXT: None or the cached general help
    nregs,              \* number of registrations made so far (bounded by MaxRegs)
    config,             \* [ALLOW_ALL_WORKSPACE_USERS] as loaded at start-up
    last,               \* the last call made: its name, its inputs and what it returned or said
    callers,            \* the calls of get_cached_general_help in progress, one per thread
    registering         \* the registration in progress, statement by statement

vars == <<COMMAND_REGISTRY, attrs, CACHED_HELP_TEXT, nregs, config, last, callers, registering>>

(***************************************************************************)
(* Bounds                                                                  *)
(***************************************************************************)
MaxRegs == 2

None == <<>>
Some(v) == <<v>>

(***************************************************************************)
(* Python string functions                                                 *)
(***************************************************************************)
Char(s, i) == SubSeq(s, i, i)

\* the grave accent of Slack's code spans, taken from a two-character literal
Backtick == SubSeq("`'", 1, 1)

\* the characters U+0001 to U+00FF in code-point order, the character of code
\* point i at position i: the characters a string of this module can hold
CodePoints ==
    "\t\n\f\r"
    \o " !\"#$%&'()*+,-./0123456789:;<=>?@ABCDEFGHIJKLMNOPQRSTUVWXYZ[\\]^_"
    \o Backtick \o "abcdefghijklmnopqrstuvwxyz{|}~"
    \o " "
    \o "¡¢£¤¥¦§¨©ª«¬­®¯°±²³´µ¶·¸¹º»¼½¾¿ÀÁÂÃÄÅÆÇÈÉÊËÌÍÎÏÐÑÒÓÔÕÖ×ØÙÚÛÜÝÞßàáâãäåæçèéêëìíîïðñòóôõö÷øùúûüýþÿ"

\* ord(c)
OrdOf ==
    [ c \in { Char(CodePoints, i) : i \in 1..Len(CodePoints) } |->
        CHOOSE i \in 1..Len(CodePoints) : Char(CodePoints, i) = c ]

Ord(c) == OrdOf[c]

\* chr(i)
Chr(i) == Char(CodePoints, i)

\* the code points that str.strip() removes and the regular expression's \s
\* matches: \t \n \v \f \r, U+001C to U+001F, the space, U+0085 and U+00A0
\* (Python takes the Unicode spaces above U+00FF as well)
WhitespaceCodes == (9..13) \cup (28..32) \cup {133, 160}

Whitespace == { Chr(i) : i \in WhitespaceCodes }

IsSpace(c) == c \in Whitespace

StartsAt(s, sub, i) ==
    /\ i >= 1
    /\ i + Len(sub) - 1 <= Len(s)
    /\ SubSeq(s, i, i + Len(sub) - 1) = sub

\* Python: sub in s
Contains(s, sub) == \E i \in 1..(Len(s) - Len(sub) + 1) : StartsAt(s, sub, i)

\* the code points str.lower() changes: A to Z, and U+00C0 to U+00DE but for
\* the multiplication sign U+00D7
UpperCodes == (65..90) \cup (192..214) \cup (216..222)

\* the lower-case letter of each upper-case letter, 32 code points above it
LowerOf == [ c \in { Chr(i) : i \in UpperCodes } |-> Chr(Ord(c) + 32) ]

LowerChar(c) == IF c \in DOMAIN LowerOf THEN LowerOf[c] ELSE c

RECURSIVE LowerFrom(_, _)
LowerFrom(s, i) ==
    IF i > Len(s) THEN "" ELSE LowerChar(Char(s, i)) \o LowerFrom(s, i + 1)

\* Python: s.lower()
Lower(s) == LowerFrom(s, 1)

RECURSIVE ReplaceFrom(_, _, _, _)
ReplaceFrom(s, old, new, i) ==
    IF i > Len(s) THEN ""
    ELSE IF StartsAt(s, old, i)
         THEN new \o ReplaceFrom(s, old, new, i + Len(old))
         ELSE Char(s, i) \o ReplaceFrom(s, old, new, i + 1)

\* Python: s.replace(old, new) for a non-empty old: leftmost, non-overlapping
Replace(s, old, new) == ReplaceFrom(s, old, new, 1)

RECURSIVE LStripFrom(_, _)
LStripFrom(s, i) ==
    IF i > Len(s) THEN Len(s) + 1
    ELSE IF IsSpace(Char(s, i)) THEN LStripFrom(s, i + 1) ELSE i

RECURSIVE RStripFrom(_, _)
RStripFrom(s, j) ==
    IF j < 1 THEN 0
    ELSE IF IsSpace(Char(s, j)) THEN RStripFrom(s, j - 1) ELSE j

\* Python: s.strip()
Strip(s) ==
    LET i == LStripFrom(s, 1)
        j == RStripFrom(s, Len(s))
    IN  IF i > j THEN "" ELSE SubSeq(s, i, j)

\* the first place at or after start where sep stands in s, 0 when there is none
NextSep(s, sep, start) ==
    LET places == { i \in start..Len(s) : Char(s, i) = sep }
    IN  IF places = {} THEN 0 ELSE CHOOSE i \in places : \A j \in places : i <= j

RECURSIVE SplitFrom(_, _, _)
SplitFrom(s, sep, start) ==
    LET i == NextSep(s, sep, start)
    IN  IF i = 0 THEN << SubSeq(s, start, Len(s)) >>
        ELSE << SubSeq(s, start, i - 1) >> \o SplitFrom(s, sep, i + 1)

\* Python: s.split(sep) for a one-character sep ("".split(" ") is [""])
Split(s, sep) == SplitFrom(s, sep, 1)

RECURSIVE Join(_, _)
\* Python: sep.join(parts)
Join(parts, sep) ==
    IF Len(parts) = 0 THEN ""
    ELSE IF Len(parts) = 1 THEN parts[1]
         ELSE parts[1] \o sep \o Join(Tail(parts), sep)

RECURSIVE SelectSeqOf(_, _)
\* the list comprehension [x for x in xs if x.strip() != ""]
SelectSeqOf(xs, i) ==
    IF i > Len(xs) THEN <<>>
    ELSE IF Strip(xs[i]) # ""
         THEN <<xs[i]>> \o SelectSeqOf(xs, i + 1)
         ELSE SelectSeqOf(xs, i + 1)

\* Python: xs[:n]
\* a slice that cuts nothing
TakeAll(xs, n) == xs

Take(xs, n) == SubSeq(xs, 1, IF Len(xs) < n THEN Len(xs) ELSE n)

(***************************************************************************)
(* Values of the metadata: a static value or a zero-argument producer      *)
(***************************************************************************)
ListV(items) == [type |-> "list", items |-> items]
StrV(s) == [type |-> "str", s |-> s]

\* what a call gives when an exception leaves it instead of a value
Raised(exc) == [type |-> "raised", exc |-> exc]

IsRaised(result) == result.type = "raised"

Static(v) == [callable |-> FALSE, value |-> v]
Producer(v) == [callable |-> TRUE, raises |-> FALSE, value |-> v]
\* a producer that raises an exception of class exc
Raising(exc) == [callable |-> TRUE, raises |-> TRUE, exc |-> exc]
\* a producer that raises an error (a subclass of Exception)
RaisingProducer == Raising("RuntimeError")
\* a producer that raises SystemExit, which is a BaseException and no Exception
ExitingProducer == Raising("SystemExit")

\* the exception classes of Python that do not derive from Exception
NotExceptions ==
    { "BaseException", "SystemExit", "KeyboardInterrupt", "GeneratorExit",
      "BaseExceptionGroup", "CancelledError" }

\* the exceptions that `except Exception` catches: every other class
CaughtAsException == STRING \ NotExceptions

ErrorSentinel == "<error getting value>"

get_dynamic_value(value_or_callable) ==
    IF value_or_callable.callable
    THEN IF value_or_callable.raises
         THEN IF value_or_callable.exc \in CaughtAsException
              THEN StrV(ErrorSentinel)
              ELSE Raised(value_or_callable.exc)
         ELSE value_or_callable.value
    ELSE value_or_callable.value

get_openstack_statuses == <<"ACTIVE", "SHUTOFF", "ERROR">>

get_openstack_flavors ==
    << "m1.tiny", "m1.small", "m1.medium", "m1.large", "m1.xlarge",
       "ci.cpu.small", "ci.cpu.medium", "ci.cpu.large",
       "t2.micro", "t2.small", "t2.medium", "t3.micro", "t3.small", "t3.medium",
       "c5.large", "c5.xlarge", "c5.2xlarge",
       "r5.large", "r5.xlarge",
       "i3.large", "i3.xlarge" >>

get_aws_instance_states ==
    <<"pending", "running", "shutting-down", "terminated", "stopping", "stopped">>

get_aws_instance_types ==
    <<"t2.micro", "t2.small", "t2.medium", "t3.micro", "t3.small", "t3.medium">>

\* the code points str.isprintable() rejects: the control characters, U+00A0
\* and the soft hyphen U+00AD
UnprintableCodes == (1..31) \cup (127..160) \cup {173}

HexDigits == "0123456789abcdef"

\* the two hexadecimal digits of a code point below 256
Hex2(n) == Char(HexDigits, (n \div 16) + 1) \o Char(HexDigits, (n % 16) + 1)

\* Python: repr of one character of a str inside the quote character quote
ReprChar(c, quote) ==
    IF c = "\\" THEN "\\\\"
    ELSE IF c = "\n" THEN "\\n"
    ELSE IF c = "\t" THEN "\\t"
    ELSE IF c = "\r" THEN "\\r"
    ELSE IF c = quote THEN "\\" \o c
    ELSE IF Ord(c) \in UnprintableCodes THEN "\\x" \o Hex2(Ord(c))
    ELSE c

RECURSIVE ReprFrom(_, _, _)
ReprFrom(s, quote, i) ==
    IF i > Len(s) THEN ""
    ELSE ReprChar(Char(s, i), quote) \o ReprFrom(s, quote, i + 1)

\* Python: repr(s) of a str: in double quotes when s holds a single quote and no
\* double quote, in single quotes otherwise
ReprStr(s) ==
    LET quote == IF Contains(s, "'") /\ ~Contains(s, "\"") THEN "\"" ELSE "'"
    IN  quote \o ReprFrom(s, quote, 1) \o quote

\* Python: str(v) of a list, less its brackets: the repr of each item
RECURSIVE ReprItems(_)
ReprItems(items) ==
    IF Len(items) = 0 THEN ""
    ELSE IF Len(items) = 1 THEN ReprStr(items[1])
         ELSE ReprStr(items[1]) \o ", " \o ReprItems(Tail(items))

FormatValue(v) == IF v.type = "str" THEN v.s ELSE "[" \o ReprItems(v.items) \o "]"

\* Python truthiness of a resolved value
Truthy(v) == IF v.type = "str" THEN v.s # "" ELSE Len(v.items) > 0

(***************************************************************************)
(* The registry: a dict, which keeps its keys in insertion order           *)
(***************************************************************************)
RegistryKeys(reg) == { reg[i].k : i \in DOMAIN reg }

\* list(COMMAND_REGISTRY.keys())
list_commands_of(reg) == [ i \in DOMAIN reg |-> reg[i].k ]

RegistryGet(reg, key) == reg[CHOOSE i \in DOMAIN reg : reg[i].k = key].f

\* COMMAND_REGISTRY[key] = func: a present key keeps its place
RegistrySet(reg, key, func) ==
    IF key \in RegistryKeys(reg)
    THEN [ i \in DOMAIN reg |-> IF reg[i].k = key THEN [k |-> key, f |-> func] ELSE reg[i] ]
    ELSE Append(reg, [k |-> key, f |-> func])

RECURSIVE RegistrySetAll(_, _, _)
\* for alias in aliases: COMMAND_REGISTRY[alias] = func
RegistrySetAll(reg, aliases, func) ==
    IF Len(aliases) = 0 THEN reg
    ELSE RegistrySetAll(RegistrySet(reg, Head(aliases), func), Tail(aliases), func)

\* meta.get(key, default) and "value or default" of an optional argument
MetaGet(meta, key, default) == IF key \in DOMAIN meta THEN meta[key] ELSE default

\* a function object on which no _command_* attribute has been set
NoAttrs == [ description |-> None, arguments |-> None, examples |-> None, aliases |-> None ]

\* getattr(func, "_command_<field>", default)
GetAttr(at, func, field, default) ==
    IF at[func][field] = None THEN default ELSE at[func][field][1]

\* the registration step of command_meta.attach_metadata
AttachRegistry(reg, name, aliases, func) ==
    LET reg1 == IF name # "help" THEN RegistrySet(reg, name, func) ELSE reg
    IN  IF Len(aliases) > 0 THEN RegistrySetAll(reg1, aliases, func) ELSE reg1

\* the attributes command_meta.attach_metadata stores on func
AttachAttrs(meta) ==
    [ description |-> Some(meta.description),
      arguments |-> Some(MetaGet(meta, "arguments", <<>>)),
      examples |-> Some(MetaGet(meta, "examples", <<>>)),
      aliases |-> Some(MetaGet(meta, "aliases", <<>>)) ]

\* mutant: the loop over the aliases is missing
RegisterRegistryNoAliases(reg, name, aliases, handler) == RegistrySet(reg, name, handler)

\* the registration step of register_command
RegisterRegistry(reg, name, aliases, handler) ==
    RegistrySetAll(RegistrySet(reg, name, handler), aliases, handler)

\* the attributes register_command stores on handler
RegisterAttrs(meta) ==
    [ description |-> Some(MetaGet(meta, "description", "")),
      arguments |-> Some(MetaGet(meta, "arguments", <<>>)),
      examples |-> Some(MetaGet(meta, "examples", <<>>)),
      aliases |-> Some(MetaGet(meta, "aliases", <<>>)) ]

get_command_handler(reg, command_name) ==
    IF command_name \in RegistryKeys(reg) THEN Some(RegistryGet(reg, command_name)) ELSE None

(***************************************************************************)
(* Help formatter                                                          *)
(***************************************************************************)
\* len(choices) > 10 and choices[:10]
MaxChoicesShown == 10

ArgRequired(info) == MetaGet(info, "required", FALSE)

\* the name of a command with its arguments, as the Usage line shows it
DetailedUsagePart(arg) ==
    IF ArgRequired(arg.info)
    THEN "--" \o arg.name \o "=<" \o arg.name \o ">"
    ELSE "[--" \o arg.name \o "=<" \o arg.name \o ">]"

\* the options field with the marker already at MaxChoicesShown entries
OptionsFieldMarkedAtTen(info) ==
    IF "choices" \in DOMAIN info
    THEN LET choices == get_dynamic_value(info.choices)
         IN  IF IsRaised(choices) THEN choices
             ELSE IF Truthy(choices) /\ choices.type = "list"
             THEN IF Len(choices.items) >= MaxChoicesShown
                  THEN StrV(" (Options: " \o Join(Take(choices.items, MaxChoicesShown), ", ") \o ", ...)")
                  ELSE StrV(" (Options: " \o Join(choices.items, ", ") \o ")")
             ELSE StrV("")
    ELSE StrV("")

\* the " (Options: ...)" field of an argument line, or the exception that
\* leaves the resolution of the choices
OptionsField(info) ==
    IF "choices" \in DOMAIN info
    THEN LET choices == get_dynamic_value(info.choices)
         IN  IF IsRaised(choices) THEN choices
             ELSE IF Truthy(choices) /\ choices.type = "list"
             THEN IF Len(choices.items) > MaxChoicesShown
                  THEN StrV(" (Options: " \o Join(Take(choices.items, MaxChoicesShown), ", ") \o ", ...)")
                  ELSE StrV(" (Options: " \o Join(choices.items, ", ") \o ")")
             ELSE StrV("")
    ELSE StrV("")

\* the " (Default: ...)" field of an argument line, or the exception that
\* leaves the resolution of the default
DefaultField(info) ==
    IF "default" \in DOMAIN info
    THEN LET default_val == get_dynamic_value(info.default)
         IN  IF IsRaised(default_val) THEN default_val
             ELSE StrV(" (Default: " \o FormatValue(default_val) \o ")")
    ELSE StrV("")

\* the line of an argument: its choices are resolved before its default
ArgLine(arg) ==
    LET options == OptionsField(arg.info)
        default == DefaultField(arg.info)
    IN  IF IsRaised(options) THEN options
        ELSE IF IsRaised(default) THEN default
        ELSE StrV("  " \o Backtick \o "--" \o arg.name \o Backtick
                  \o (IF ArgRequired(arg.info) THEN " *(required)*" ELSE "")
                  \o " - " \o MetaGet(arg.info, "description", "No description")
                  \o options.s
                  \o default.s)

format_command_help(reg, at, command_name, detailed) ==
    IF command_name \notin RegistryKeys(reg)
    THEN StrV("Command '" \o command_name \o "' not found.")
    ELSE
    LET func == RegistryGet(reg, command_name)
        description == GetAttr(at, func, "description", "No description available")
        arguments == GetAttr(at, func, "arguments", <<>>)
        examples == GetAttr(at, func, "examples", <<>>)
        aliases == GetAttr(at, func, "aliases", <<>>)
        usage_parts == <<command_name>> \o [ i \in DOMAIN arguments |-> DetailedUsagePart(arguments[i]) ]
        arg_lines == [ i \in DOMAIN arguments |-> ArgLine(arguments[i]) ]
        \* the arguments whose line is not built because a producer's exception leaves
        failing == { i \in DOMAIN arguments : IsRaised(arg_lines[i]) }
        help_text ==
            << "*" \o command_name \o "*", "_" \o description \o "_", "" >>
            \o (IF Len(arguments) > 0
                THEN << "*Usage:* " \o Backtick \o Join(usage_parts, " ") \o Backtick, "" >>
                ELSE <<>>)
            \o (IF Len(arguments) > 0
                THEN << "*Arguments:*" >>
                     \o [ i \in DOMAIN arguments |-> arg_lines[i].s ]
                     \o << "" >>
                ELSE <<>>)
            \o (IF Len(examples) > 0
                THEN << "*Examples:*" >>
                     \o [ i \in DOMAIN examples |-> "  " \o Backtick \o examples[i] \o Backtick ]
                     \o << "" >>
                ELSE <<>>)
            \o (IF Len(aliases) > 0
                THEN << "*Aliases:* " \o Join(aliases, ", "), "" >>
                ELSE <<>>)
    IN  IF ~detailed
        THEN StrV(Backtick \o command_name \o Backtick \o " - " \o description)
        ELSE IF failing # {}
             THEN arg_lines[CHOOSE i \in failing : \A j \in failing : i <= j]
             ELSE StrV(Strip(Join(help_text, "\n")))

(***************************************************************************)
(* General help and its cache                                              *)
(***************************************************************************)
RECURSIVE StrLessFrom(_, _, _)
StrLessFrom(a, b, i) ==
    IF i > Len(a) THEN i <= Len(b)
    ELSE IF i > Len(b) THEN FALSE
    ELSE IF Char(a, i) = Char(b, i) THEN StrLessFrom(a, b, i + 1)
    ELSE Ord(Char(a, i)) < Ord(Char(b, i))

\* Python: a < b on strings
StrLess(a, b) == StrLessFrom(a, b, 1)

RECURSIVE InsertSorted(_, _)
InsertSorted(sorted, item) ==
    IF Len(sorted) = 0 THEN << item >>
    ELSE IF StrLess(item.k, Head(sorted).k)
         THEN << item >> \o sorted
         ELSE << Head(sorted) >> \o InsertSorted(Tail(sorted), item)

RECURSIVE SortedItems(_)
\* sorted(d.items()) of a dict given as its sequence of [k, f]
SortedItems(items) ==
    IF Len(items) = 0 THEN <<>>
    ELSE InsertSorted(SortedItems(SubSeq(items, 1, Len(items) - 1)), items[Len(items)])

RECURSIVE UniqueFrom(_, _, _)
UniqueFrom(reg, i, acc) ==
    IF i > Len(reg) THEN acc
    ELSE IF reg[i].k \notin RegistryKeys(acc)
         THEN UniqueFrom(reg, i + 1, RegistrySet(acc, reg[i].k, reg[i].f))
         ELSE UniqueFrom(reg, i + 1, acc)

\* the dict unique_commands that _build_general_help_text fills from the registry
unique_commands(reg) == UniqueFrom(reg, 1, <<>>)

GeneralUsagePart(arg) ==
    IF ArgRequired(arg.info) THEN "<" \o arg.name \o ">" ELSE "[" \o arg.name \o "]"

\* the line appended for one command, from the attributes read for it
GeneralHelpLineOf(cmd_name, arguments, description) ==
    LET usage_parts == <<cmd_name>> \o [ i \in DOMAIN arguments |-> GeneralUsagePart(arguments[i]) ]
    IN  Backtick \o Join(usage_parts, " ") \o Backtick \o " - " \o description

\* the line of one command in the general help
GeneralHelpLine(at, cmd_name, func) ==
    GeneralHelpLineOf(cmd_name,
                      GetAttr(at, func, "arguments", <<>>),
                      GetAttr(at, func, "description", "No description available"))

GeneralHelpHeader == "*Available Commands:*"

GeneralHelpTrailer ==
    << "",
       "For detailed help on any command, use: " \o Backtick \o "help <command-name>" \o Backtick
         \o " or " \o Backtick \o "<command-name> --help" \o Backtick,
       "",
       "Example: " \o Backtick \o "help openstack vm create" \o Backtick
         \o " or " \o Backtick \o "openstack vm create --help" \o Backtick >>

\* help_lines of _build_general_help_text
GeneralHelpLines(reg, at) ==
    LET sorted_commands == SortedItems(unique_commands(reg))
    IN  << GeneralHelpHeader >>
        \o [ i \in DOMAIN sorted_commands |->
                GeneralHelpLine(at, sorted_commands[i].k, sorted_commands[i].f) ]
        \o GeneralHelpTrailer

build_general_help_text(reg, at) == Join(GeneralHelpLines(reg, at), "\n")

\* mutant: the text is built on every call
CacheAlwaysRebuilt(cached, reg, at) == Some(build_general_help_text(reg, at))

\* what get_cached_general_help leaves in _CACHED_HELP_TEXT
CacheAfterGet(cached, reg, at) ==
    IF cached = None THEN Some(build_general_help_text(reg, at)) ELSE cached

(***************************************************************************)
(* The help request: check_help_flag, remove_help_from_command,            *)
(* handle_help_command                                                     *)
(***************************************************************************)
\* the strings the group (-{0,2}h(elp)?) of the pattern matches
HelpFlagTokens == {"h", "-h", "--h", "help", "-help", "--help"}

\* the pattern's .*\S.* : no newline, and a character that is not whitespace
MatchesAnyNonSpaceAny(p) ==
    /\ \A i \in 1..Len(p) : Char(p, i) # "\n"
    /\ \E i \in 1..Len(p) : ~IsSpace(Char(p, i))

\* the pattern's $ : the end of the string, or just before a final newline
EndPositions(s) ==
    {Len(s)} \cup (IF Len(s) >= 1 /\ Char(s, Len(s)) = "\n" THEN {Len(s) - 1} ELSE {})

\* first alternative, ^help\b\s.+ : re.match needs no more than this prefix
MatchesLeadingHelp(s) ==
    /\ Len(s) >= 6
    /\ SubSeq(s, 1, 4) = "help"
    /\ IsSpace(Char(s, 5))
    /\ Char(s, 6) # "\n"

\* second alternative, .*\S.*\s(-{0,2}h(elp)?)$
MatchesTrailingHelp(s) ==
    \E t \in HelpFlagTokens : \E e \in EndPositions(s) :
        LET b == e - Len(t) + 1     \* where the token starts
        IN  /\ b >= 3
            /\ SubSeq(s, b, e) = t
            /\ IsSpace(Char(s, b - 1))
            /\ MatchesAnyNonSpaceAny(SubSeq(s, 1, b - 2))

check_help_flag(command_line) ==
    MatchesLeadingHelp(command_line) \/ MatchesTrailingHelp(command_line)

remove_help_from_command(command_name) ==
    IF command_name # "" /\ check_help_flag(command_name)
    THEN Replace(Replace(Replace(command_name, "help ", ""), " help", ""), " h", "")
    ELSE command_name

\* "Hello <@user>! " when a user is given, "Hello! " otherwise
Greeting(user) ==
    IF user # None /\ user[1] # "" THEN "Hello <@" \o user[1] \o ">! " ELSE "Hello! "

RECURSIVE SuggestionsFrom(_, _, _)
\* [cmd for cmd in available_commands if command_name.lower() in cmd.lower()]
SuggestionsFrom(available, command_name, i) ==
    IF i > Len(available) THEN <<>>
    ELSE IF Contains(Lower(available[i]), Lower(command_name))
         THEN <<available[i]>> \o SuggestionsFrom(available, command_name, i + 1)
         ELSE SuggestionsFrom(available, command_name, i + 1)

Suggestions(reg, command_name) == SuggestionsFrom(list_commands_of(reg), command_name, 1)

\* suggestions[:5]
MaxSuggestions == 5

\* the name handle_help_command looks up: None when it shows the general help
HelpLookupName(command_name) ==
    IF command_name # None /\ command_name[1] # ""
    THEN Some(remove_help_from_command(command_name[1]))
    ELSE None

\* the message handle_help_command sends when it has caught an error
HelpErrorMessage(user) ==
    (IF user # None /\ user[1] # "" THEN "Sorry <@" \o user[1] \o ">, " ELSE "Sorry, ")
    \o "I encountered an error while generating help information."

\* say(f"{greeting}Here's help for `{command_name}`:\n\n{help_text}"), or the
\* exception format_command_help has raised
SpecificHelp(user, name, help_text) ==
    IF IsRaised(help_text) THEN help_text
    ELSE StrV(Greeting(user) \o "Here's help for " \o Backtick \o name
              \o Backtick \o ":\n\n" \o help_text.s)

\* the two messages of the else branch: with suggestions[:5], and without
NotFound(user, name, suggestions) ==
    IF Len(suggestions) > 0
    THEN StrV(Greeting(user) \o "Command " \o Backtick \o name \o Backtick
              \o " not found. Did you mean: "
              \o Join(Take(suggestions, MaxSuggestions), ", ") \o "?")
    ELSE StrV(Greeting(user) \o "Command " \o Backtick \o name \o Backtick
              \o " not found. Use " \o Backtick \o "help" \o Backtick
              \o " to see all available commands.")

\* what the try block of handle_help_command has when it reaches its say, for
\* the name it looks up (target, None for the general help): the message it
\* passes to say, or the exception raised before by format_command_help
HelpResponse(reg, at, cached, user, target) ==
    IF target # None
    THEN IF target[1] \in RegistryKeys(reg)
         THEN SpecificHelp(user, target[1], format_command_help(reg, at, target[1], TRUE))
         ELSE NotFound(user, target[1], Suggestions(reg, target[1]))
    ELSE StrV(Greeting(user) \o "Here's what I can help you with:\n\n"
              \o CacheAfterGet(cached, reg, at)[1])

\* the callback say, given by how its successive calls end: each returns, or
\* raises the exception named
Returns == "returns"

\* except Exception as e: say(error message); the call of say is outside any try,
\* so what it raises leaves handle_help_command
HelpExcept(passed, say, user) ==
    [ said |-> passed \o << HelpErrorMessage(user) >>,
      raised |-> IF say[Len(passed) + 1] = Returns THEN None ELSE Some(say[Len(passed) + 1]) ]

\* the messages handle_help_command passes to say, in order, and the exception
\* that leaves it. Every say of the try block is inside the try: an Exception it
\* raises is caught like one of format_command_help, and the error message is
\* passed to say in a further call
HelpOutcome(response, say, user) ==
    IF IsRaised(response)
    THEN IF response.exc \in CaughtAsException
         THEN HelpExcept(<<>>, say, user)
         ELSE [ said |-> <<>>, raised |-> Some(response.exc) ]
    ELSE IF say[1] = Returns
         THEN [ said |-> << response.s >>, raised |-> None ]
         ELSE IF say[1] \in CaughtAsException
              THEN HelpExcept(<< response.s >>, say, user)
              ELSE [ said |-> << response.s >>, raised |-> Some(say[1]) ]

(***************************************************************************)
(* Inputs: the handler functions and the command declarations              *)
(***************************************************************************)
Funcs == {"handle_list_aws_vms", "handle_hello"}

\* a choices list of n entries
FirstFlavors(n) == SubSeq(get_openstack_flavors, 1, n)

DeclListAwsVms ==
    [ name |-> "list-aws-vms",
      meta |-> [ description |-> "List AWS EC2 instances",
                 arguments |-> <<
                     [ name |-> "state",
                       info |-> [ description |-> "Filter by instance state",
                                  choices |-> Producer(ListV(get_aws_instance_states)),
                                  default |-> Static(StrV("running")) ] ],
                     [ name |-> "type",
                       info |-> [ required |-> TRUE,
                                  description |-> "Instance type",
                                  choices |-> Static(ListV(get_aws_instance_types)) ] ],
                     [ name |-> "flavor",
                       info |-> [ description |-> "Flavor",
                                  choices |-> Static(ListV(FirstFlavors(10))) ] ],
                     [ name |-> "size",
                       info |-> [ description |-> "Size",
                                  choices |-> Producer(ListV(FirstFlavors(11))) ] ],
                     [ name |-> "shape",
                       info |-> [ description |-> "Shape",
                                  choices |-> Static(ListV(FirstFlavors(12))),
                                  default |-> Static(StrV("m1.tiny")) ] ] >>,
                 examples |-> << "list-aws-vms --state=running" >>,
                 aliases |-> << "aws-vms", "lav" >> ] ]

DeclHello ==
    [ name |-> "hello",
      meta |-> [ examples |-> << "hello" >> ] ]

DeclHelp ==
    [ name |-> "help",
      meta |-> [ description |-> "Show the available commands",
                 arguments |-> <<
                     [ name |-> "topic",
                       info |-> [ description |-> "Command to explain",
                                  choices |-> ExitingProducer ] ] >>,
                 aliases |-> << "commands", "Help-Me", "helpme", "get-help", "show-help",
                                "bot-help", "all-help" >> ] ]

DeclCreateOpenstackVm ==
    [ name |-> "create-openstack-vm",
      meta |-> [ description |-> "Create an OpenStack VM",
                 arguments |-> <<
                     [ name |-> "os_name",
                       info |-> [ required |-> TRUE,
                                  description |-> "Operating system",
                                  choices |-> Raising("ValueError") ] ],
                     [ name |-> "flavor",
                       info |-> [ description |-> "VM flavor",
                                  choices |-> Producer(ListV(get_openstack_flavors)),
                                  default |-> RaisingProducer ] ],
                     [ name |-> "status",
                       info |-> [ choices |-> Static(ListV(get_openstack_statuses)),
                                  default |-> Static(ListV(<< "ACTIVE", "it's", "a\\b\tc",
                                                              "vt" \o Chr(11) \o Chr(160) >>)) ] ] >>,
                 aliases |-> << "hello" >> ] ]

Decls == { DeclListAwsVms, DeclHello, DeclHelp, DeclCreateOpenstackVm }

\* the registrations made: a declaration and the function it is attached to
\* (two declarations share each function, so that a function is registered twice)
Registrations ==
    { [ decl |-> DeclListAwsVms, func |-> "handle_list_aws_vms" ],
      [ decl |-> DeclCreateOpenstackVm, func |-> "handle_list_aws_vms" ],
      [ decl |-> DeclHello, func |-> "handle_hello" ],
      [ decl |-> DeclHelp, func |-> "handle_hello" ] }

\* every dispatch key a declaration can register, and one that none does
KnownKeys ==
    UNION { {d.name} \cup { MetaGet(d.meta, "aliases", <<>>)[i] :
                              i \in DOMAIN MetaGet(d.meta, "aliases", <<>>) } : d \in Decls }

LookupNames == KnownKeys \cup {"nosuch"}

HelpSuffixes == {"", " help", " -h", " --help"}

\* the targets of a help request
HelpTargets ==
    { Some(k \o suffix) : k \in {"list-aws-vms", "hello"}, suffix \in HelpSuffixes }
    \cup { None, Some(""), Some("help lav"), Some("lav h"), Some("AWS"), Some("nosuch"),
           Some("hel"), Some("commands"), Some("lav help\r-h"), Some("help\flav"), Some("\r h"),
           Some("lav help" \o Chr(11) \o "-h"), Some(Chr(28) \o " h") }

\* a say whose calls all return
Delivers == << Returns, Returns >>

\* the says that fail: on the first call and not on the next, on both, and with
\* an exception that is no Exception
FailingSays ==
    { << "RuntimeError", Returns >>, << "RuntimeError", "KeyError" >>, << "SystemExit", Returns >> }

\* the help requests made through a say that returns: the user asking (None, or
\* a Slack user id) and the target
HelpRequests ==
    { [ say |-> Delivers, user |-> Some("U1"), command_name |-> t ] : t \in HelpTargets }
    \cup { [ say |-> Delivers, user |-> None, command_name |-> t ] :
              t \in { None, Some("hello"), Some("nosuch") } }

\* the targets that are no key, whatever is registered
UnknownTargets ==
    { Some("help lav"), Some("lav h"), Some("AWS"), Some("nosuch"), Some("hel"),
      Some("lav help\r-h"), Some("\r h"), Some(Chr(28) \o " h") }

\* the help requests made through a say that returns or fails: for the targets
\* that are no key with a say that returns, and with each say for a name that is
\* a key once registered, for one that keys contain, for one that no key
\* contains and for the general help
SayRequests ==
    { [ say |-> Delivers, user |-> Some("U1"), command_name |-> t ] :
          t \in UnknownTargets \cup { None, Some("hello") } }
    \cup { [ say |-> say, user |-> Some("U1"), command_name |-> t ] :
              say \in FailingSays, t \in { Some("hello"), Some("hel"), Some("nosuch") } }
    \cup { [ say |-> << "RuntimeError", Returns >>, user |-> u, command_name |-> t ] :
              u \in { None }, t \in { None, Some("hel") } }

(***************************************************************************)
(* The state after import: nothing registered, nothing cached              *)
(***************************************************************************)
\* the threads that ask for the general help at the same time
Threads == {"t1", "t2"}

\* no call of get_cached_general_help has begun: each thread is about to make one
NoCallers ==
    [ pc |-> [ t \in Threads |-> "test" ],
      build |-> [ t \in Threads |-> None ],
      text |-> [ t \in Threads |-> None ],
      ret |-> [ t \in Threads |-> None ],
      raised |-> [ t \in Threads |-> None ],
      stores |-> 0 ]

\* no registration is in progress
NotRegistering == [ pc |-> "idle" ]

InitRegistry ==
    /\ callers = NoCallers
    /\ registering = NotRegistering
    /\ COMMAND_REGISTRY = <<>>
    /\ attrs = [ f \in Funcs |-> NoAttrs ]
    /\ CACHED_HELP_TEXT = None
    /\ nregs = 0

Init ==
    /\ InitRegistry
    /\ config = [ ALLOW_ALL_WORKSPACE_USERS |-> FALSE ]
    /\ last = [ op |-> "init" ]

(***************************************************************************)
(* Operations of help_system.py                                            *)
(***************************************************************************)
\* @command_meta(name, description, arguments, examples, aliases) applied to func
command_meta(decl, func) ==
    /\ nregs < MaxRegs
    /\ "description" \in DOMAIN decl.meta
    /\ attrs' = [ attrs EXCEPT ![func] = AttachAttrs(decl.meta) ]
    /\ COMMAND_REGISTRY' =
          AttachRegistry(COMMAND_REGISTRY, decl.name, MetaGet(decl.meta, "aliases", <<>>), func)
    /\ nregs' = nregs + 1
    /\ last' = [ op |-> "command_meta", name |-> decl.name, meta |-> decl.meta, func |-> func ]
    /\ UNCHANGED <<CACHED_HELP_TEXT, config, callers, registering>>

register_command(decl, handler) ==
    /\ nregs < MaxRegs
    /\ attrs' = [ attrs EXCEPT ![handler] = RegisterAttrs(decl.meta) ]
    /\ COMMAND_REGISTRY' =
          RegisterRegistry(COMMAND_REGISTRY, decl.name, MetaGet(decl.meta, "aliases", <<>>), handler)
    /\ nregs' = nregs + 1
    /\ last' = [ op |-> "register_command", name |-> decl.name, meta |-> decl.meta, func |-> handler ]
    /\ UNCHANGED <<CACHED_HELP_TEXT, config, callers, registering>>

GetCommandHandler(command_name) ==
    /\ last' = [ op |-> "get_command_handler", command_name |-> command_name,
                 ret |-> get_command_handler(COMMAND_REGISTRY, command_name) ]
    /\ UNCHANGED <<COMMAND_REGISTRY, attrs, CACHED_HELP_TEXT, nregs, config, callers, registering>>

FormatCommandHelp(command_name, detailed) ==
    /\ \E result \in { format_command_help(COMMAND_REGISTRY, attrs, command_name, detailed) } :
           last' = IF IsRaised(result)
                   THEN [ op |-> "format_command_help", command_name |-> command_name,
                          detailed |-> detailed, raised |-> Some(result.exc) ]
                   ELSE [ op |-> "format_command_help", command_name |-> command_name,
                          detailed |-> detailed, raised |-> None, ret |-> result.s ]
    /\ UNCHANGED <<COMMAND_REGISTRY, attrs, CACHED_HELP_TEXT, nregs, config, callers, registering>>

get_cached_general_help ==
    /\ CACHED_HELP_TEXT' = CacheAfterGet(CACHED_HELP_TEXT, COMMAND_REGISTRY, attrs)
    /\ last' = [ op |-> "get_cached_general_help",
                 built |-> (CACHED_HELP_TEXT = None),
                 ret |-> CACHED_HELP_TEXT'[1] ]
    /\ UNCHANGED <<COMMAND_REGISTRY, attrs, nregs, config, callers, registering>>

handle_help_command(say, user, command_name) ==
    /\ \E target \in { HelpLookupName(command_name) } :
          /\ CACHED_HELP_TEXT' =
                IF target = None
                THEN CacheAfterGet(CACHED_HELP_TEXT, COMMAND_REGISTRY, attrs)
                ELSE CACHED_HELP_TEXT
          /\ \E response \in { HelpResponse(COMMAND_REGISTRY, attrs, CACHED_HELP_TEXT, user, target) } :
                last' = [ op |-> "handle_help_command", say |-> say, user |-> user,
                          command_name |-> command_name, lookup |-> target ]
                        @@ HelpOutcome(response, say, user)
    /\ UNCHANGED <<COMMAND_REGISTRY, attrs, nregs, config, callers, registering>>

Register ==
    \/ \E r \in Registrations : command_meta(r.decl, r.func)
    \/ \E r \in Registrations : register_command(r.decl, r.func)

\* the registry and the general help cache
Next ==
    \/ Register
    \/ \E command_name \in LookupNames : GetCommandHandler(command_name)
    \/ get_cached_general_help

Spec == Init /\ [][Next]_vars

\* the registry and the help formatter
NextFormat ==
    \/ Register
    \/ \E command_name \in LookupNames, detailed \in BOOLEAN :
          FormatCommandHelp(command_name, detailed)

SpecFormat == Init /\ [][NextFormat]_vars

\* the registry and the help request through a say that returns
NextHelp ==
    \/ Register
    \/ \E req \in HelpRequests : handle_help_command(req.say, req.user, req.command_name)

SpecHelp == Init /\ [][NextHelp]_vars

\* the registry and the help request through a say that may fail
NextHelpSay ==
    \/ Register
    \/ \E req \in SayRequests : handle_help_command(req.say, req.user, req.command_name)

SpecHelpSay == Init /\ [][NextHelpSay]_vars

(***************************************************************************)
(* get_cached_general_help called by two threads with no lock: its test,   *)
(* the reads of the registry and of the attributes that its build makes,   *)
(* its store and its return are steps that interleave with each other and  *)
(* with the statements of a registration                                   *)
(***************************************************************************)
\* if _CACHED_HELP_TEXT is None:
TestCache(t) ==
    /\ callers.pc[t] = "test"
    /\ callers' = [ callers EXCEPT !.pc[t] = IF CACHED_HELP_TEXT = None THEN "build" ELSE "return" ]
    /\ last' = [ op |-> "test", thread |-> t ]
    /\ UNCHANGED <<COMMAND_REGISTRY, attrs, CACHED_HELP_TEXT, nregs, config, registering>>

\* the text once every line is appended: "\n".join(help_lines)
BuiltText(lines) == Join(<< GeneralHelpHeader >> \o lines \o GeneralHelpTrailer, "\n")

\* the build after the loop over the registry: the commands sorted and the
\* first of them next, or with no command the text at once
AfterIteration(c, t, items) ==
    IF Len(items) = 0
    THEN [ c EXCEPT !.pc[t] = "store", !.build[t] = None, !.text[t] = Some(BuiltText(<<>>)) ]
    ELSE [ c EXCEPT !.pc[t] = "arguments",
                    !.build[t] = Some([ commands |-> SortedItems(items), lines |-> <<>> ]) ]

\* COMMAND_REGISTRY.items() and the iterator of the for loop, which notes the
\* size of the dict
BuildText(t) ==
    /\ callers.pc[t] = "build"
    /\ callers' = [ callers EXCEPT !.pc[t] = "iterate",
                                    !.build[t] = Some([ used |-> Len(COMMAND_REGISTRY), items |-> <<>> ]) ]
    /\ last' = [ op |-> "build", thread |-> t ]
    /\ UNCHANGED <<COMMAND_REGISTRY, attrs, CACHED_HELP_TEXT, nregs, config, registering>>

\* one turn of "for cmd_name, func in COMMAND_REGISTRY.items()": the iterator
\* raises RuntimeError when the dict has changed size since the loop began,
\* else it gives the next item as the dict holds it now, or ends the loop
NextItem(t) ==
    /\ callers.pc[t] = "iterate"
    /\ LET b == callers.build[t][1]
           i == Len(b.items) + 1
       IN  callers' =
             IF Len(COMMAND_REGISTRY) # b.used
             THEN [ callers EXCEPT !.pc[t] = "raised", !.build[t] = None,
                                   !.raised[t] = Some("RuntimeError") ]
             ELSE IF i > b.used
             THEN AfterIteration(callers, t, b.items)
             ELSE [ callers EXCEPT !.build[t] =
                       Some([ b EXCEPT !.items = RegistrySet(b.items, COMMAND_REGISTRY[i].k,
                                                             COMMAND_REGISTRY[i].f) ]) ]
    /\ last' = [ op |-> "next_item", thread |-> t ]
    /\ UNCHANGED <<COMMAND_REGISTRY, attrs, CACHED_HELP_TEXT, nregs, config, registering>>

\* arguments = getattr(func, "_command_arguments", {}) for the next command
ReadArguments(t) ==
    /\ callers.pc[t] = "arguments"
    /\ LET b == callers.build[t][1]
           cmd == b.commands[Len(b.lines) + 1]
       IN  callers' = [ callers EXCEPT !.pc[t] = "description",
                           !.build[t] = Some([ commands |-> b.commands, lines |-> b.lines,
                                               arguments |-> GetAttr(attrs, cmd.f, "arguments", <<>>) ]) ]
    /\ last' = [ op |-> "read_arguments", thread |-> t ]
    /\ UNCHANGED <<COMMAND_REGISTRY, attrs, CACHED_HELP_TEXT, nregs, config, registering>>

\* description = getattr(func, "_command_description", ...) and the line of
\* the command appended; after the last command the lines are joined
ReadDescription(t) ==
    /\ callers.pc[t] = "description"
    /\ LET b == callers.build[t][1]
           cmd == b.commands[Len(b.lines) + 1]
           line == GeneralHelpLineOf(cmd.k, b.arguments,
                                     GetAttr(attrs, cmd.f, "description", "No description available"))
           lines == Append(b.lines, line)
       IN  callers' =
             IF Len(lines) = Len(b.commands)
             THEN [ callers EXCEPT !.pc[t] = "store", !.build[t] = None,
                                   !.text[t] = Some(BuiltText(lines)) ]
             ELSE [ callers EXCEPT !.pc[t] = "arguments",
                                   !.build[t] = Some([ commands |-> b.commands, lines |-> lines ]) ]
    /\ last' = [ op |-> "read_description", thread |-> t ]
    /\ UNCHANGED <<COMMAND_REGISTRY, attrs, CACHED_HELP_TEXT, nregs, config, registering>>

\* _CACHED_HELP_TEXT = <the text built>
StoreCache(t) ==
    /\ callers.pc[t] = "store"
    /\ CACHED_HELP_TEXT' = callers.text[t]
    /\ callers' = [ callers EXCEPT !.pc[t] = "return", !.stores = @ + 1 ]
    /\ last' = [ op |-> "store", thread |-> t ]
    /\ UNCHANGED <<COMMAND_REGISTRY, attrs, nregs, config, registering>>

\* return _CACHED_HELP_TEXT
ReturnCache(t) ==
    /\ callers.pc[t] = "return"
    /\ callers' = [ callers EXCEPT !.pc[t] = "done", !.ret[t] = CACHED_HELP_TEXT ]
    /\ last' = [ op |-> "return", thread |-> t ]
    /\ UNCHANGED <<COMMAND_REGISTRY, attrs, CACHED_HELP_TEXT, nregs, config, registering>>

(***************************************************************************)
(* A registration made while the threads ask for the general help: neither *)
(* command_meta.attach_metadata nor register_command holds a lock, so each *)
(* of its assignments is a step the threads can come between               *)
(***************************************************************************)
\* the decorator applied to a command named "help" that has one alias
DeclHelpAlone ==
    [ name |-> "help",
      meta |-> [ description |-> "Show the available commands", aliases |-> << "commands" >> ] ]

\* the registrations made while help is served: by decorator and by call, a
\* function registered a second time, and the decorator applied to "help"
ConcurrentRegistrations ==
    { [ op |-> "command_meta", decl |-> DeclListAwsVms, func |-> "handle_list_aws_vms" ],
      [ op |-> "register_command", decl |-> DeclHello, func |-> "handle_list_aws_vms" ],
      [ op |-> "register_command", decl |-> DeclHello, func |-> "handle_hello" ],
      [ op |-> "command_meta", decl |-> DeclHelpAlone, func |-> "handle_hello" ] }

\* the attribute values the registration r assigns
StoredAttrs(r) ==
    IF r.op = "command_meta" THEN AttachAttrs(r.decl.meta) ELSE RegisterAttrs(r.decl.meta)

\* the aliases the registration r loops over
StoredAliases(r) == MetaGet(r.decl.meta, "aliases", <<>>)

\* the loop over the aliases: at its i-th alias, or past its end, where the
\* registration returns
AliasLoop(r, i) ==
    IF i <= Len(StoredAliases(r)) THEN [ pc |-> "alias", reg |-> r, i |-> i ] ELSE NotRegistering

\* after the attributes: command_meta skips the store of the name "help",
\* register_command stores every name
AfterAttrs(r) ==
    IF r.op = "register_command" \/ r.decl.name # "help"
    THEN [ pc |-> "name", reg |-> r ]
    ELSE AliasLoop(r, 1)

\* func._command_description = description, the first statement of a registration
StoreDescription(r) ==
    /\ registering = NotRegistering
    /\ nregs < MaxRegs
    /\ r.op = "command_meta" => "description" \in DOMAIN r.decl.meta
    /\ attrs' = [ attrs EXCEPT ![r.func].description = StoredAttrs(r).description ]
    /\ registering' = [ pc |-> "arguments", reg |-> r ]
    /\ nregs' = nregs + 1
    /\ last' = [ op |-> "store_description", name |-> r.decl.name, func |-> r.func ]
    /\ UNCHANGED <<COMMAND_REGISTRY, CACHED_HELP_TEXT, config, callers>>

\* func._command_arguments = arguments or {}
StoreArguments ==
    /\ registering.pc = "arguments"
    /\ attrs' = [ attrs EXCEPT ![registering.reg.func].arguments = StoredAttrs(registering.reg).arguments ]
    /\ registering' = [ registering EXCEPT !.pc = "examples" ]
    /\ last' = [ op |-> "store_arguments" ]
    /\ UNCHANGED <<COMMAND_REGISTRY, CACHED_HELP_TEXT, nregs, config, callers>>

\* func._command_examples = examples or []
StoreExamples ==
    /\ registering.pc = "examples"
    /\ attrs' = [ attrs EXCEPT ![registering.reg.func].examples = StoredAttrs(registering.reg).examples ]
    /\ registering' = [ registering EXCEPT !.pc = "aliases" ]
    /\ last' = [ op |-> "store_examples" ]
    /\ UNCHANGED <<COMMAND_REGISTRY, CACHED_HELP_TEXT, nregs, config, callers>>

\* func._command_aliases = aliases or []
StoreAliases ==
    /\ registering.pc = "aliases"
    /\ attrs' = [ attrs EXCEPT ![registering.reg.func].aliases = StoredAttrs(registering.reg).aliases ]
    /\ registering' = AfterAttrs(registering.reg)
    /\ last' = [ op |-> "store_aliases" ]
    /\ UNCHANGED <<COMMAND_REGISTRY, CACHED_HELP_TEXT, nregs, config, callers>>

\* COMMAND_REGISTRY[name] = func
StoreName ==
    /\ registering.pc = "name"
    /\ COMMAND_REGISTRY' =
          RegistrySet(COMMAND_REGISTRY, registering.reg.decl.name, registering.reg.func)
    /\ registering' = AliasLoop(registering.reg, 1)
    /\ last' = [ op |-> "store_name" ]
    /\ UNCHANGED <<attrs, CACHED_HELP_TEXT, nregs, config, callers>>

\* COMMAND_REGISTRY[alias] = func, one turn of the loop
StoreAlias ==
    /\ registering.pc = "alias"
    /\ COMMAND_REGISTRY' =
          RegistrySet(COMMAND_REGISTRY, StoredAliases(registering.reg)[registering.i],
                      registering.reg.func)
    /\ registering' = AliasLoop(registering.reg, registering.i + 1)
    /\ last' = [ op |-> "store_alias" ]
    /\ UNCHANGED <<attrs, CACHED_HELP_TEXT, nregs, config, callers>>

NextConcurrent ==
    \/ \E r \in ConcurrentRegistrations : StoreDescription(r)
    \/ StoreArguments
    \/ StoreExamples
    \/ StoreAliases
    \/ StoreName
    \/ StoreAlias
    \/ \E t \in Threads : TestCache(t)
    \/ \E t \in Threads : BuildText(t)
    \/ \E t \in Threads : NextItem(t)
    \/ \E t \in Threads : ReadArguments(t)
    \/ \E t \in Threads : ReadDescription(t)
    \/ \E t \in Threads : StoreCache(t)
    \/ \E t \in Threads : ReturnCache(t)

SpecConcurrent == Init /\ [][NextConcurrent]_vars

(***************************************************************************)
(* The dispatcher: mention_handler of slack_main.py                        *)
(***************************************************************************)
\* config.ALLOWED_SLACK_USERS: user name -> Slack user id
ALLOWED_SLACK_USERS == [ alice |-> "U1" ]

is_user_allowed(user_id) == \E n \in DOMAIN ALLOWED_SLACK_USERS : ALLOWED_SLACK_USERS[n] = user_id

\* the gate at the head of mention_handler: the message is answered "not authorized"
Rejected(cfg, user) == cfg.ALLOW_ALL_WORKSPACE_USERS /\ ~is_user_allowed(user)

NotAuthorizedMessage(user) ==
    "Sorry <@" \o user \o ">, you're not authorized to use this bot."
    \o "Contact ocp-sustaining-admin@redhat.com for assistance."

FallbackMessage(user) ==
    "Hello <@" \o user \o ">! I couldn't understand your request. "
    \o "Please try again or type 'help' for assistance."

\* mutant: the final say is missing
FallbackNotSaid(user) == <<>>

\* the say that ends mention_handler when no handler was called
FallbackSaid(user) == << FallbackMessage(user) >>

\* cmd_strings = [x for x in command_line.split(" ") if x.strip() != ""]
CmdStrings(text) == SelectSeqOf(Split(Strip(text), " "), 1)

\* cmd_strings[0][:2] == "<@" and len(cmd_strings) > 1
HasMention(cmd_strings) == StartsAt(cmd_strings[1], "<@", 1) /\ Len(cmd_strings) > 1

CommandKey(cmd_strings) ==
    IF HasMention(cmd_strings) THEN Lower(cmd_strings[2]) ELSE cmd_strings[1]

CommandLine(cmd_strings) ==
    IF HasMention(cmd_strings) THEN Join(Tail(cmd_strings), " ") ELSE Join(cmd_strings, " ")

RECURSIVE ParametersFrom(_, _)
ParametersFrom(tokens, i) ==
    IF i > Len(tokens) THEN <<>>
    ELSE LET t == tokens[i]
             eq == IF Contains(t, "=")
                   THEN CHOOSE j \in 1..Len(t) :
                            Char(t, j) = "=" /\ \A m \in 1..(j - 1) : Char(t, m) # "="
                   ELSE 0
         IN  IF StartsAt(t, "--", 1) /\ eq > 3
             THEN << [ key |-> SubSeq(t, 3, eq - 1), value |-> SubSeq(t, eq + 1, Len(t)) ] >>
                  \o ParametersFrom(tokens, i + 1)
             ELSE ParametersFrom(tokens, i + 1)

\* sdk.tools.helpers.get_dict_of_command_parameters: the --key=value tokens of the line
get_dict_of_command_parameters(command_line) ==
    ParametersFrom(Split(command_line, " "), 1)

\* the dict commands of mention_handler: command key -> the handler its lambda calls
commands ==
    ("help" :> "handle_help") @@ ("create-openstack-vm" :> "handle_create_openstack_vm")
    @@ ("list-openstack-vms" :> "handle_list_openstack_vms") @@ ("hello" :> "handle_hello")
    @@ ("create-aws-vm" :> "handle_create_aws_vm") @@ ("aws-modify-vm" :> "handle_aws_modify_vm")
    @@ ("list-aws-vms" :> "handle_list_aws_vms") @@ ("list-team-links" :> "handle_list_team_links")

handle_help_says(user) ==
    "Hello <@" \o user \o ">! I'm here to help. You can use the following commands:\n"
    \o Backtick \o "create-openstack-vm <name> <image> <flavor> <network>" \o Backtick
    \o ": Create an OpenStack VM.\n"
    \o Backtick \o "list-aws-vms" \o Backtick \o "\n"
    \o Backtick \o "hello" \o Backtick \o ": Greet the bot."

handle_hello_says(user) == "Hello <@" \o user \o ">! How can I assist you today?"

\* handle_create_openstack_vm(say, user, text) is called with params_dict as its
\* text: text.replace raises AttributeError, a dict having no replace, and the
\* except Exception of the handler passes the error to say
handle_create_openstack_vm_says ==
    "An error occurred creating the openstack VM : 'dict' object has no attribute 'replace'"

\* what a handler that returns has passed to say; what the other handlers that
\* call a cloud SDK say is not modelled
HandlerSays(handler, user) ==
    IF handler = "handle_help" THEN << handle_help_says(user) >>
    ELSE IF handler = "handle_hello" THEN << handle_hello_says(user) >>
    ELSE IF handler = "handle_create_openstack_vm" THEN << handle_create_openstack_vm_says >>
    ELSE <<>>

\* how the call of a handler ends: it returns, or it raises
Outcomes == {"returns", "KeyError", "Exception"}

\* the except clause around commands[cmd]()
Swallowed(outcome) == outcome = "KeyError"

\* one run of mention_handler: what it said, the handler it called with which
\* parameters, and the error that left it
mention_result(cfg, user, text, outcome) ==
    LET cmd_strings == CmdStrings(text)
        cmd == CommandKey(cmd_strings)
        params_dict == get_dict_of_command_parameters(CommandLine(cmd_strings))
        fallback == [ said |-> FallbackSaid(user), invoked |-> None,
                      params |-> None, outcome |-> "none", raised |-> None ]
    IN  IF Rejected(cfg, user)
        THEN [ said |-> << NotAuthorizedMessage(user) >>, invoked |-> None,
               params |-> None, outcome |-> "none", raised |-> None ]
        ELSE IF Len(cmd_strings) > 0
             THEN IF cmd \in DOMAIN commands
                  THEN IF outcome = "returns"
                       THEN [ said |-> HandlerSays(commands[cmd], user),
                              invoked |-> Some(commands[cmd]), params |-> Some(params_dict),
                              outcome |-> outcome, raised |-> None ]
                       ELSE IF Swallowed(outcome)
                            THEN [ said |-> FallbackSaid(user),
                                   invoked |-> Some(commands[cmd]), params |-> Some(params_dict),
                                   outcome |-> outcome, raised |-> None ]
                            ELSE [ said |-> <<>>,
                                   invoked |-> Some(commands[cmd]), params |-> Some(params_dict),
                                   outcome |-> outcome, raised |-> Some(outcome) ]
                  ELSE fallback
             ELSE fallback

\* the users who write to the bot: one on the allow-list, one not
Users == {"U1", "U2"}

BotMention == "<@BOTID>"

\* command lines whose first token is no mention
BareLines ==
    { "hello", "Hello", "help", "list-aws-vms", "list-aws-vms --state=running",
      "LIST-AWS-VMS  --state=running", "list-asw-vms", "list-aws", "nosuch",
      "create-aws-vm --os_name=linux --instance_type=t2.micro", "hello <@U2>",
      "create-openstack-vm --name=vm1" }

\* the texts of the messages received
Texts ==
    BareLines
    \cup { BotMention \o " " \o t : t \in BareLines }
    \cup { "", " ", "\t", " \n  ", BotMention, "  hello  ", BotMention \o "  " \o BotMention \o " hello",
           "\r", " \f\r ", "hello\r\n", "\r \f hello", "hello \r x",
           Chr(11), " " \o Chr(28) \o Chr(133) \o Chr(160), Chr(31) \o "hello" \o Chr(11) }

mention_handler(user, text, outcome) ==
    /\ last' = [ op |-> "mention_handler", user |-> user, text |-> text ]
                @@ mention_result(config, user, text, outcome)
    /\ UNCHANGED <<COMMAND_REGISTRY, attrs, CACHED_HELP_TEXT, nregs, config, callers, registering>>

InitDispatch ==
    /\ InitRegistry
    /\ config \in [ ALLOW_ALL_WORKSPACE_USERS : BOOLEAN ]
    /\ last = [ op |-> "init" ]

NextDispatch ==
    \E user \in Users, text \in Texts, outcome \in Outcomes : mention_handler(user, text, outcome)

SpecDispatch == InitDispatch /\ [][NextDispatch]_vars

(***************************************************************************)
(* Properties                                                              *)
(***************************************************************************)
IsRegistration == last.op \in {"command_meta", "register_command"}

\* the aliases of the command the last registration declared
LastAliases == MetaGet(last.meta, "aliases", <<>>)

LastAliasSet == { LastAliases[i] : i \in DOMAIN LastAliases }

\* key resolves to the function just registered, which carries the declared
\* description, arguments and examples
ResolvesToLast(key) ==
    /\ get_command_handler(COMMAND_REGISTRY, key) = Some(last.func)
    /\ LET func == RegistryGet(COMMAND_REGISTRY, key)
       IN  /\ GetAttr(attrs, func, "description", "No description available")
                = MetaGet(last.meta, "description", "")
           /\ GetAttr(attrs, func, "arguments", <<>>) = MetaGet(last.meta, "arguments", <<>>)
           /\ GetAttr(attrs, func, "examples", <<>>) = MetaGet(last.meta, "examples", <<>>)

\* C1 as stated: after a registration (by command_meta or register_command) of
\* name n with aliases A, get_command_handler succeeds for n and for every alias
\* in A, and each returns the same handler with the same description, arguments
\* and examples.
C1_AllKeysResolve ==
    IsRegistration => \A key \in {last.name} \cup LastAliasSet : ResolvesToLast(key)

\* C1 amended: the same for every alias, and for the name n unless the command
\* was registered by command_meta under the name "help", which command_meta
\* does not insert.
C1_RegisteredKeysResolve ==
    IsRegistration =>
        \A key \in LastAliasSet
                   \cup (IF last.op = "command_meta" /\ last.name = "help" THEN {} ELSE {last.name}) :
            ResolvesToLast(key)

C1_Witness ==
    /\ IsRegistration
    /\ Len(LastAliases) = 2
    /\ Len(COMMAND_REGISTRY) > 3
    /\ \A key \in {last.name} \cup LastAliasSet : ResolvesToLast(key)

\* C2: once get_cached_general_help has returned a string, every later call
\* returns that string: the cache, once set, never changes (also across a
\* registration), and each call returns the cache.
C2_CacheNeverRebuilt ==
    [][ /\ CACHED_HELP_TEXT # None => CACHED_HELP_TEXT' = CACHED_HELP_TEXT
        /\ last'.op = "get_cached_general_help" => Some(last'.ret) = CACHED_HELP_TEXT' ]_vars

\* a call after the first returned a text that lacks a command registered since
C2_Witness ==
    /\ last.op = "get_cached_general_help"
    /\ ~last.built
    /\ last.ret # build_general_help_text(COMMAND_REGISTRY, attrs)
    /\ Len(COMMAND_REGISTRY) > 0

\* the lines of the general help between its header and its four closing lines
CommandLinesOf(text) ==
    LET lines == Split(text, "\n")
    IN  SubSeq(lines, 2, Len(lines) - Len(GeneralHelpTrailer))

\* C3: the text _build_general_help_text builds holds one line per command: a
\* command (a handler function with its metadata) registered with k aliases
\* contributes one line, not k + 1.
C3_OneLinePerCommand ==
    (last.op = "get_cached_general_help" /\ last.built) =>
        Len(CommandLinesOf(last.ret))
            = Cardinality({ COMMAND_REGISTRY[i].f : i \in DOMAIN COMMAND_REGISTRY })

\* C4: after a registration of a command whose canonical name is "help" (and
\* which does not list "help" among its aliases), the dispatch key "help" does
\* not hold that command.
C4_HelpNotUnderOwnKey ==
    (IsRegistration /\ last.name = "help" /\ "help" \notin LastAliasSet) =>
        get_command_handler(COMMAND_REGISTRY, "help") # Some(last.func)

\* the arguments of the command the last format_command_help call named
LastArguments ==
    GetAttr(attrs, RegistryGet(COMMAND_REGISTRY, last.command_name), "arguments", <<>>)

RaisesOnChoices(arg) ==
    /\ "choices" \in DOMAIN arg.info
    /\ arg.info.choices.callable
    /\ arg.info.choices.raises

\* the line of the detailed help that describes argument arg
ArgumentLineIn(text, arg) ==
    LET lines == Split(text, "\n")
        start == "  " \o Backtick \o "--" \o arg.name \o Backtick
    IN  lines[CHOOSE i \in DOMAIN lines : StartsAt(lines[i], start, 1)]

\* format_command_help was asked for the detailed help of a registered key
IsDetailedCallOfKnown ==
    /\ last.op = "format_command_help"
    /\ last.detailed
    /\ last.command_name \in RegistryKeys(COMMAND_REGISTRY)

\* ... and returned a text
IsDetailedHelpOfKnown == IsDetailedCallOfKnown /\ last.raised = None

\* C5: when the choices producer of an argument raises, the failure does not
\* leave format_command_help: the detailed help is returned and still holds
\* the command name, its description and the unchanged line of every other
\* argument, and the line of the failing argument shows the sentinel
\* "<error getting value>" as its options.
C5_FailingChoicesShowSentinel ==
    (IsDetailedCallOfKnown /\ \E i \in DOMAIN LastArguments : RaisesOnChoices(LastArguments[i])) =>
        /\ last.raised = None
        /\ Contains(last.ret, "*" \o last.command_name \o "*")
        /\ Contains(last.ret,
                    "_" \o GetAttr(attrs, RegistryGet(COMMAND_REGISTRY, last.command_name),
                                   "description", "No description available") \o "_")
        /\ \A i \in DOMAIN LastArguments :
              IF RaisesOnChoices(LastArguments[i])
              THEN Contains(ArgumentLineIn(last.ret, LastArguments[i]),
                            "Options: " \o ErrorSentinel)
              ELSE ArgumentLineIn(last.ret, LastArguments[i]) = ArgLine(LastArguments[i]).s

\* the result of the dispatcher on the bare line of a mentioned message
BareRun(bare) == mention_result(config, last.user, bare, "returns")

\* C6: a message "<@BOTID> T", T a command line whose first token is no
\* mention, selects the handler and extracts the parameters that T alone does.
C6_MentionPrefixIrrelevant ==
    last.op = "mention_handler" =>
        \A bare \in BareLines :
            last.text = BotMention \o " " \o bare =>
                /\ last.invoked = BareRun(bare).invoked
                /\ last.params = BareRun(bare).params

\* the command text the dispatcher looked up for the last message
LastCmd == CommandKey(CmdStrings(last.text))

IsMiss ==
    /\ last.op = "mention_handler"
    /\ ~Rejected(config, last.user)
    /\ Len(CmdStrings(last.text)) > 0
    /\ LastCmd \notin DOMAIN commands

\* the keys of the dispatcher that contain the attempted command, case ignored
DispatchSuggestions == { k \in DOMAIN commands : Contains(Lower(k), Lower(LastCmd)) }

\* C7: on a miss for a non-empty command line the dispatcher answers with
\* suggestions, the keys containing the attempted command, when there are any,
\* and with the generic message only when there are none; the typo
\* "list-asw-vms" is answered with a list holding "list-aws-vms".
C7_SuggestionsOnMiss ==
    IsMiss =>
        /\ Len(last.said) = 1
        /\ IF DispatchSuggestions # {}
           THEN /\ \E k \in DispatchSuggestions : Contains(last.said[1], k)
                /\ last.said[1] # FallbackMessage(last.user)
           ELSE last.said[1] = FallbackMessage(last.user)
        /\ last.text = "list-asw-vms" => Contains(last.said[1], "list-aws-vms")

IsBlank(text) == \A i \in 1..Len(text) : IsSpace(Char(text, i))

\* C8: a message that passes the authorization gate and whose text is empty or
\* all whitespace calls no handler and is answered by exactly one message, the
\* generic "I couldn't understand your request" one.
C8_BlankTextFallsBack ==
    (last.op = "mention_handler" /\ ~Rejected(config, last.user) /\ IsBlank(last.text)) =>
        /\ last.invoked = None
        /\ last.raised = None
        /\ Len(last.said) = 1
        /\ Contains(last.said[1], "<@" \o last.user \o ">")
        /\ Contains(last.said[1], "I couldn't understand your request")

C8_Witness ==
    /\ last.op = "mention_handler"
    /\ config.ALLOW_ALL_WORKSPACE_USERS
    /\ last.user = "U1"
    /\ last.text = " \n  "
    /\ Len(last.said) = 1
    /\ last.invoked = None

HelpTokens == {"help", "-h", "--help"}

\* C9: a help request for "c h", c a registered key and h one of help, -h,
\* --help, looks up exactly c and answers with the detailed help of c; a
\* target without a help token is looked up as it is.
C9_HelpTokenStripped ==
    (last.op = "handle_help_command" /\ last.command_name # None) =>
        /\ \A c \in RegistryKeys(COMMAND_REGISTRY) : \A h \in HelpTokens :
              last.command_name = Some(c \o " " \o h) =>
                  /\ last.lookup = Some(c)
                  /\ ~IsRaised(format_command_help(COMMAND_REGISTRY, attrs, c, TRUE))
                  /\ last.said = << Greeting(last.user) \o "Here's help for "
                                    \o Backtick \o c \o Backtick \o ":\n\n"
                                    \o format_command_help(COMMAND_REGISTRY, attrs, c, TRUE).s >>
        /\ (last.command_name[1] # "" /\ ~check_help_flag(last.command_name[1])) =>
              last.lookup = last.command_name

\* C10: when the command key is found and its handler raises, whatever the
\* error, the error leaves mention_handler and the generic fallback message is
\* not sent.
C10_HandlerErrorPropagates ==
    (last.op = "mention_handler" /\ last.invoked # None /\ last.outcome # "returns") =>
        /\ last.raised # None
        /\ \A i \in DOMAIN last.said : last.said[i] # FallbackMessage(last.user)

\* the entries the choices of arg resolve to: a non-empty list, or nothing
HasResolvedChoices(arg) ==
    /\ "choices" \in DOMAIN arg.info
    /\ ~RaisesOnChoices(arg)
    /\ arg.info.choices.value.type = "list"
    /\ Len(arg.info.choices.value.items) >= 1

ResolvedChoices(arg) == arg.info.choices.value.items

TruncationMarker == ", ..."

\* the line shows every entry of items, in order, and no truncation marker
ShowsAll(line, items) ==
    /\ Contains(line, "(Options: " \o Join(items, ", ") \o ")")
    /\ ~Contains(line, TruncationMarker)

\* the line shows the first ten entries of items, in order, then the marker, and
\* none of the later entries
ShowsFirstTen(line, items) ==
    /\ Contains(line, "(Options: " \o Join(SubSeq(items, 1, 10), ", ") \o TruncationMarker \o ")")
    /\ \A j \in 11..Len(items) : ~Contains(line, items[j])

\* C11: in the detailed help, the line of an argument whose choices resolve to
\* n >= 1 entries shows all n entries and no truncation marker when n <= 10
\* (n = 10 included), and exactly the first 10 entries, in order, followed by
\* the marker ", ..." when n > 10.
C11_ChoicesTruncatedAfterTen ==
    IsDetailedHelpOfKnown =>
        \A i \in DOMAIN LastArguments :
            HasResolvedChoices(LastArguments[i]) =>
                LET items == ResolvedChoices(LastArguments[i])
                    line == ArgumentLineIn(last.ret, LastArguments[i])
                IN  IF Len(items) <= 10 THEN ShowsAll(line, items)
                    ELSE ShowsFirstTen(line, items)

\* a detailed help whose arguments have 10, 11 and 12 choices: the marker is on
\* the lines of the last two only
C11_Witness ==
    /\ IsDetailedHelpOfKnown
    /\ \A n \in {6, 10, 11, 12} : \E i \in DOMAIN LastArguments :
           /\ HasResolvedChoices(LastArguments[i])
           /\ Len(ResolvedChoices(LastArguments[i])) = n
           /\ Contains(ArgumentLineIn(last.ret, LastArguments[i]), TruncationMarker) <=> n > 10

\* a help request whose target, as looked up, is no key of the registry
IsUnknownHelpTarget ==
    /\ last.op = "handle_help_command"
    /\ last.lookup # None
    /\ last.lookup[1] \notin RegistryKeys(COMMAND_REGISTRY)

\* the registry keys that contain the looked-up target, case ignored
MatchingKeys ==
    { k \in RegistryKeys(COMMAND_REGISTRY) : Contains(Lower(k), Lower(last.lookup[1])) }

NotFoundPrefix ==
    Greeting(last.user) \o "Command " \o Backtick \o last.lookup[1] \o Backtick \o " not found. "

DidYouMeanPrefix == NotFoundPrefix \o "Did you mean: "

UseHelpMessage ==
    NotFoundPrefix \o "Use " \o Backtick \o "help" \o Backtick \o " to see all available commands."

\* the names listed by a "did you mean" message, between its prefix and its "?"
SuggestedIn(msg) ==
    LET listed == Split(SubSeq(msg, Len(DidYouMeanPrefix) + 1, Len(msg) - 1), ",")
    IN  [ i \in DOMAIN listed |-> Strip(listed[i]) ]

IsDidYouMean(msg) ==
    /\ StartsAt(msg, DidYouMeanPrefix, 1)
    /\ Char(msg, Len(msg)) = "?"
    /\ Len(SuggestedIn(msg)) \in 1..5
    /\ \A i \in DOMAIN SuggestedIn(msg) : SuggestedIn(msg)[i] \in MatchingKeys

\* the first message of the request is the "not found" answer: "did you mean"
\* with at most 5 suggestions, each a registry key containing the target (case
\* ignored), when some key matches, and "use help" when none does
AnswersNotFound ==
    /\ Len(last.said) >= 1
    /\ last.said[1] # HelpErrorMessage(last.user)
    /\ IF MatchingKeys # {} THEN IsDidYouMean(last.said[1])
       ELSE last.said[1] = UseHelpMessage

\* C12 as stated: a help request whose target is no registry key is answered by
\* exactly one message: "not found, did you mean" with at most 5 suggestions,
\* each a registry key containing the target (case ignored), when some key
\* matches, and "not found, use help" when none does; never by the error
\* message.
C12_ExactlyOneResponseNeverTheError ==
    IsUnknownHelpTarget =>
        /\ Len(last.said) = 1
        /\ \A i \in DOMAIN last.said : last.said[i] # HelpErrorMessage(last.user)
        /\ AnswersNotFound

\* C12, amended: a help request whose target is no registry key passes to say
\* first the "not found" answer ("did you mean" with at most 5 suggestions, each
\* a registry key containing the target, case ignored, or "use help" when no key
\* matches). When that say returns, it is the only message and nothing is
\* raised. When that say raises an Exception, the error message is passed to say
\* as a second message, and what the second say raises leaves the call. When
\* that say raises what is no Exception, it leaves the call and nothing else is
\* said.
C12_UnknownTargetSuggestsAtMostFive ==
    IsUnknownHelpTarget =>
        /\ AnswersNotFound
        /\ IF last.say[1] = Returns
           THEN Len(last.said) = 1 /\ last.raised = None
           ELSE IF last.say[1] \in CaughtAsException
                THEN /\ last.said = << last.said[1], HelpErrorMessage(last.user) >>
                     /\ last.raised = IF last.say[2] = Returns THEN None ELSE Some(last.say[2])
                ELSE Len(last.said) = 1 /\ last.raised = Some(last.say[1])

\* more than 5 keys contain the target and 5 of them are suggested, in the one
\* message of a request whose say returns
C12_Witness ==
    /\ IsUnknownHelpTarget
    /\ last.say[1] = Returns
    /\ Cardinality(MatchingKeys) > 5
    /\ Len(last.said) = 1
    /\ IsDidYouMean(last.said[1])
    /\ Len(SuggestedIn(last.said[1])) = 5

\* the "did you mean" answer went to a say that raised an Exception, and the
\* error message followed it
C12_ErrorMessageFollows ==
    /\ IsUnknownHelpTarget
    /\ last.say[1] \in CaughtAsException
    /\ MatchingKeys # {}
    /\ Len(last.said) = 2
    /\ last.said[2] = HelpErrorMessage(last.user)

\* what is observed through dispatch key k: the handler and its description,
\* arguments, examples and aliases
ObservedThrough(reg, at, k) ==
    LET func == RegistryGet(reg, k)
    IN  [ handler |-> get_command_handler(reg, k),
          description |-> GetAttr(at, func, "description", "No description available"),
          arguments |-> GetAttr(at, func, "arguments", <<>>),
          examples |-> GetAttr(at, func, "examples", <<>>),
          aliases |-> GetAttr(at, func, "aliases", <<>>) ]

\* C13: register_command(name, handler, meta) leaves every dispatch key other
\* than name and the aliases of meta as it was: the handler it returns and the
\* description, arguments, examples and aliases observed through it are the
\* same before and after, also when the handler registered is the one under
\* that key.
C13_RegisterLeavesOtherKeys ==
    [][ last'.op = "register_command" =>
            \A k \in RegistryKeys(COMMAND_REGISTRY) :
                k \notin {last'.name} \cup { MetaGet(last'.meta, "aliases", <<>>)[i] :
                                                i \in DOMAIN MetaGet(last'.meta, "aliases", <<>>) } =>
                    ObservedThrough(COMMAND_REGISTRY', attrs', k)
                        = ObservedThrough(COMMAND_REGISTRY, attrs, k) ]_vars

\* C14: for a user whose id is not among the values of ALLOWED_SLACK_USERS,
\* mention_handler invokes a command handler only if
\* config.ALLOW_ALL_WORKSPACE_USERS is true; when the flag is false the user
\* gets the not-authorized message alone and no handler runs.
C14_OnlyAllowedUsersUnlessAllowAll ==
    (last.op = "mention_handler" /\ ~is_user_allowed(last.user)) =>
        /\ last.invoked # None => config.ALLOW_ALL_WORKSPACE_USERS
        /\ ~config.ALLOW_ALL_WORKSPACE_USERS =>
              /\ last.invoked = None
              /\ last.said = << NotAuthorizedMessage(last.user) >>

\* C15: when two threads run get_cached_general_help at the same time, its
\* test, build and store being separate steps that registrations may come
\* between, the cache is written at most once and every call returns the same
\* string.
C15_CacheWrittenOnce ==
    /\ callers.stores <= 1
    /\ \A t \in Threads : \A u \in Threads :
          (callers.ret[t] # None /\ callers.ret[u] # None) => callers.ret[t] = callers.ret[u]

====
